---- MODULE Spec2Model ----
(***************************************************************************)
(* Model of the response interceptors of packruler/pretty-error:           *)
(*   - codeCatcher            (pretty_error.go, internal)                   *)
(*   - httputil.CodeCatcher   (httputil/code_catcher.go, exported)          *)
(* wrapped around a real http.ResponseWriter (the "real sink"), which is   *)
(* modelled as a recorder of the calls made on it.                         *)
(***************************************************************************)
EXTENDS Integers, Sequences, FiniteSets, TLC

\* ------------------------------------------------------------------ bounds
\* Number of calls the upstream handler makes on one interceptor.
MaxCalls == 3
\* Longest payload of one Write call.
MaxBuf == 2

\* ------------------------------------------------------- program constants
StatusOK == 200

\* ------------------------------------------------------------- input sets
\* Status codes passed to WriteHeader: the default, and both edges of the
\* configured ranges from the inside and the outside.
Codes == {200, 499, 500, 599, 600}
\* Range collections handed to the constructor (block[0] <= block[1]):
\* empty, one range, two ranges of which one holds the default status, and
\* two overlapping ranges.
RangeSets ==
    { << >>,
      << <<500, 599>> >>,
      << <<200, 299>>, <<500, 599>> >>,
      << <<500, 599>>, <<599, 600>> >> }
HeaderNames == {"Set-Cookie", "Last-Modified"}
\* The header mutations the upstream handler makes through Header().
AddArgs == {<<"Set-Cookie", "v1">>, <<"Set-Cookie", "v2">>}
SetArgs == {<<"Set-Cookie", "v3">>, <<"Last-Modified", "v1">>}
Impls == {"codeCatcher", "CodeCatcher"}

VARIABLES
    impl,     \* which of the two interceptor types this instance is
    cc,       \* the interceptor's fields
    rw,       \* the real sink: its header map and the calls it received
    caps,     \* optional capabilities of the real sink's concrete type
    last,     \* the last call made on the interceptor and what it returned
    inBody,   \* concatenation of the payloads passed to the interceptor's Write
    explicit, \* the caller has called WriteHeader itself
    nCalls,   \* number of calls made so far
    sinkRet,  \* what the real sink's Write returned during the last call
    mw,       \* the rewriteBody middleware instance
    req,      \* per request: the request, and where its ServeHTTP call stands
    catchers, \* the codeCatcher objects allocated by ServeHTTP, by address
    sinks     \* per request: the real sink ServeHTTP was called with

\* One interceptor driven directly.
coreVars == <<impl, cc, rw, last, inBody, explicit, nCalls, sinkRet>>
\* The middleware serving requests.
serveVars == <<mw, req, catchers, sinks>>

vars == <<impl, cc, rw, caps, last, inBody, explicit, nCalls, sinkRet,
          mw, req, catchers, sinks>>

\* ------------------------------------------------------------ http.Header
EmptyHeader == [k \in {} |-> << >>]

Values(h, k) == IF k \in DOMAIN h THEN h[k] ELSE << >>

\* h.Add(k, v): h[k] = append(h[k], v)
HeaderAdd(h, k, v) ==
    [x \in (DOMAIN h) \cup {k} |-> IF x = k THEN Append(Values(h, k), v) ELSE h[x]]

\* h.Set(k, v): h[k] = []string{v}
HeaderSet(h, k, v) ==
    [x \in (DOMAIN h) \cup {k} |-> IF x = k THEN <<v>> ELSE h[x]]

\* h.Del(k): delete(h, k)
HeaderDel(h, k) == [x \in (DOMAIN h) \ {k} |-> h[x]]

\* CopyHeaders that assigns: dst[k] = vv.
CopyHeaders_overwrite(dst, src) ==
    [k \in (DOMAIN dst) \cup (DOMAIN src) |-> IF k \in DOMAIN src THEN src[k] ELSE dst[k]]

\* for k, vv := range src { dst[k] = append(dst[k], vv...) }
CopyHeaders(dst, src) ==
    [k \in (DOMAIN dst) \cup (DOMAIN src) |->
        IF k \in DOMAIN src THEN Values(dst, k) \o src[k] ELSE dst[k]]

\* ---------------------------------------------------------- the real sink
\* One call received by the real sink.  header is the sink's header map at
\* the moment of a WriteHeader call.
SinkCall(op, code, header, buf) ==
    [op |-> op, code |-> code, header |-> header, buf |-> buf]

\* responseWriter.WriteHeader(code)
SinkWriteHeader(w, code) ==
    [w EXCEPT !.calls = Append(@, SinkCall("WriteHeader", code, w.header, << >>))]

\* responseWriter.Write(buf)
SinkWrite(w, buf) ==
    [w EXCEPT !.calls = Append(@, SinkCall("Write", 0, EmptyHeader, buf))]

\* flusher.Flush()
SinkFlush(w) ==
    [w EXCEPT !.calls = Append(@, SinkCall("Flush", 0, EmptyHeader, << >>))]

\* hj.Hijack()
SinkHijack(w) ==
    [w EXCEPT !.calls = Append(@, SinkCall("Hijack", 0, EmptyHeader, << >>))]

\* What the real sink's Write may return for buf: success, or an I/O error
\* after n bytes.
SinkWriteOutcomes(buf) ==
    {[n |-> Len(buf), err |-> "nil"]}
        \cup {[n |-> k, err |-> "EIO"] : k \in {0, Len(buf) - 1} \cap (0..Len(buf))}

\* No Write was made on the real sink.
NoSinkRet == [n |-> 0, err |-> "none"]

\* The concrete type of the real sink, which decides its capabilities.
SinkType(c) ==
    IF c.flusher
    THEN (IF c.hijacker THEN "*http.response" ELSE "*flushWriter")
    ELSE (IF c.hijacker THEN "*hijackWriter" ELSE "*plainWriter")

\* fmt.Errorf("%T is not a http.Hijacker", responseWriter)
NotHijackerError(typ) ==
    CASE typ = "*http.response" -> "*http.response is not a http.Hijacker"
      [] typ = "*flushWriter"   -> "*flushWriter is not a http.Hijacker"
      [] typ = "*hijackWriter"  -> "*hijackWriter is not a http.Hijacker"
      [] typ = "*plainWriter"   -> "*plainWriter is not a http.Hijacker"

\* The result of one call on the interceptor.
Result(op, code, buf, n, err) ==
    [op |-> op, code |-> code, buf |-> buf, n |-> n, err |-> err]

NoResult == Result("none", 0, << >>, 0, "nil")

\* ------------------------------------------------ codeCatcher (internal)
\* newCodeCatcher that leaves code at the zero value.
newCodeCatcher_zeroCode(httpCodeRanges) ==
    [headerMap          |-> EmptyHeader,
     code               |-> 0,
     httpCodeRanges     |-> httpCodeRanges,
     caughtFilteredCode |-> FALSE,
     headersSent        |-> FALSE]

newCodeCatcher(httpCodeRanges) ==
    [headerMap          |-> EmptyHeader,
     code               |-> StatusOK,
     httpCodeRanges     |-> httpCodeRanges,
     caughtFilteredCode |-> FALSE,
     headersSent        |-> FALSE]

getCode(c) == c.code

isFilteredCode(c) == c.caughtFilteredCode

\* The range loop with an exclusive upper end.
RECURSIVE codeCatcher_rangeLoop_exclusive(_, _, _)
codeCatcher_rangeLoop_exclusive(code, ranges, i) ==
    IF i > Len(ranges) THEN FALSE
    ELSE IF code >= ranges[i][1] /\ code < ranges[i][2] THEN TRUE
    ELSE codeCatcher_rangeLoop_exclusive(code, ranges, i + 1)

\* The loop of WriteHeader over cc.httpCodeRanges from block i on: TRUE when
\* it reaches a block with block[0] <= code <= block[1].
RECURSIVE codeCatcher_rangeLoop(_, _, _)
codeCatcher_rangeLoop(code, ranges, i) ==
    IF i > Len(ranges) THEN FALSE
    ELSE IF code >= ranges[i][1] /\ code <= ranges[i][2] THEN TRUE
    ELSE codeCatcher_rangeLoop(code, ranges, i + 1)

\* WriteHeader without the return that follows caughtFilteredCode = true: a
\* filtered status falls through to the header copy.
codeCatcher_WriteHeader_noReturn(s, code) ==
    IF s.cc.headersSent \/ s.cc.caughtFilteredCode THEN s
    ELSE LET c1 == [s.cc EXCEPT !.code = code]
             c2 == IF codeCatcher_rangeLoop(c1.code, c1.httpCodeRanges, 1)
                   THEN [c1 EXCEPT !.caughtFilteredCode = TRUE] ELSE c1
             w1 == [s.rw EXCEPT !.header = CopyHeaders(@, c2.headerMap)]
             w2 == SinkWriteHeader(w1, c2.code)
         IN  [cc |-> [c2 EXCEPT !.headersSent = TRUE], rw |-> w2]

\* WriteHeader whose early return tests headersSent only.
codeCatcher_WriteHeader_sentOnly(s, code) ==
    IF s.cc.headersSent THEN s
    ELSE LET c1 == [s.cc EXCEPT !.code = code] IN
         IF codeCatcher_rangeLoop(c1.code, c1.httpCodeRanges, 1)
         THEN [cc |-> [c1 EXCEPT !.caughtFilteredCode = TRUE], rw |-> s.rw]
         ELSE LET w1 == [s.rw EXCEPT !.header = CopyHeaders(@, c1.headerMap)]
                  w2 == SinkWriteHeader(w1, c1.code)
              IN  [cc |-> [c1 EXCEPT !.headersSent = TRUE], rw |-> w2]

\* WriteHeader that records the code before its early return.
codeCatcher_WriteHeader_codeFirst(s, code) ==
    LET c1 == [s.cc EXCEPT !.code = code] IN
    IF s.cc.headersSent \/ s.cc.caughtFilteredCode THEN [cc |-> c1, rw |-> s.rw]
    ELSE IF codeCatcher_rangeLoop(c1.code, c1.httpCodeRanges, 1)
         THEN [cc |-> [c1 EXCEPT !.caughtFilteredCode = TRUE], rw |-> s.rw]
         ELSE LET w1 == [s.rw EXCEPT !.header = CopyHeaders(@, c1.headerMap)]
                  w2 == SinkWriteHeader(w1, c1.code)
              IN  [cc |-> [c1 EXCEPT !.headersSent = TRUE], rw |-> w2]

\* WriteHeader that copies the buffered headers before the range loop.
codeCatcher_WriteHeader_copyFirst(s, code) ==
    IF s.cc.headersSent \/ s.cc.caughtFilteredCode THEN s
    ELSE LET c1 == [s.cc EXCEPT !.code = code]
             w1 == [s.rw EXCEPT !.header = CopyHeaders(@, c1.headerMap)]
         IN  IF codeCatcher_rangeLoop(c1.code, c1.httpCodeRanges, 1)
             THEN [cc |-> [c1 EXCEPT !.caughtFilteredCode = TRUE], rw |-> w1]
             ELSE [cc |-> [c1 EXCEPT !.headersSent = TRUE],
                   rw |-> SinkWriteHeader(w1, c1.code)]

\* WriteHeader that, once the headers are sent, copies the buffer again.
codeCatcher_WriteHeader_recopy(s, code) ==
    IF s.cc.caughtFilteredCode THEN s
    ELSE IF s.cc.headersSent
         THEN [cc |-> s.cc, rw |-> [s.rw EXCEPT !.header = CopyHeaders(@, s.cc.headerMap)]]
    ELSE LET c1 == [s.cc EXCEPT !.code = code] IN
         IF codeCatcher_rangeLoop(c1.code, c1.httpCodeRanges, 1)
         THEN [cc |-> [c1 EXCEPT !.caughtFilteredCode = TRUE], rw |-> s.rw]
         ELSE LET w1 == [s.rw EXCEPT !.header = CopyHeaders(@, c1.headerMap)]
                  w2 == SinkWriteHeader(w1, c1.code)
              IN  [cc |-> [c1 EXCEPT !.headersSent = TRUE], rw |-> w2]

\* s = [cc |-> interceptor, rw |-> real sink]
codeCatcher_WriteHeader(s, code) ==
    IF s.cc.headersSent \/ s.cc.caughtFilteredCode THEN s
    ELSE LET c1 == [s.cc EXCEPT !.code = code] IN
         IF codeCatcher_rangeLoop(c1.code, c1.httpCodeRanges, 1)
         THEN [cc |-> [c1 EXCEPT !.caughtFilteredCode = TRUE], rw |-> s.rw]
         ELSE LET w1 == [s.rw EXCEPT !.header = CopyHeaders(@, c1.headerMap)]
                  w2 == SinkWriteHeader(w1, c1.code)
              IN  [cc |-> [c1 EXCEPT !.headersSent = TRUE], rw |-> w2]

\* Write without the caughtFilteredCode test.
codeCatcher_Write_noFilterTest(s, buf, out) ==
    LET s1 == codeCatcher_WriteHeader(s, s.cc.code) IN
    [cc |-> s1.cc, rw |-> SinkWrite(s1.rw, buf), n |-> out.n, err |-> out.err]

\* Write that returns after the WriteHeader call when that call sent the
\* headers: the payload of the first Write is lost.
codeCatcher_Write_dropFirst(s, buf, out) ==
    LET s1 == codeCatcher_WriteHeader(s, s.cc.code) IN
    IF s1.cc.caughtFilteredCode \/ ~s.cc.headersSent
    THEN [cc |-> s1.cc, rw |-> s1.rw, n |-> Len(buf), err |-> "nil"]
    ELSE [cc |-> s1.cc, rw |-> SinkWrite(s1.rw, buf), n |-> out.n, err |-> out.err]

\* Write that forwards the payload and reports success whatever the real
\* sink returned.
codeCatcher_Write_swallowError(s, buf, out) ==
    LET s1 == codeCatcher_WriteHeader(s, s.cc.code) IN
    IF s1.cc.caughtFilteredCode
    THEN [cc |-> s1.cc, rw |-> s1.rw, n |-> Len(buf), err |-> "nil"]
    ELSE [cc |-> s1.cc, rw |-> SinkWrite(s1.rw, buf), n |-> Len(buf), err |-> "nil"]

\* out is what the real sink's Write returns if it is called.
codeCatcher_Write(s, buf, out) ==
    LET s1 == codeCatcher_WriteHeader(s, s.cc.code) IN
    IF s1.cc.caughtFilteredCode
    THEN [cc |-> s1.cc, rw |-> s1.rw, n |-> Len(buf), err |-> "nil"]
    ELSE [cc |-> s1.cc, rw |-> SinkWrite(s1.rw, buf), n |-> out.n, err |-> out.err]

\* Flush that flushes the real sink before the WriteHeader call.
codeCatcher_Flush_flushFirst(s, hasFlusher) ==
    LET s0 == IF hasFlusher THEN [cc |-> s.cc, rw |-> SinkFlush(s.rw)] ELSE s
    IN  codeCatcher_WriteHeader(s0, s0.cc.code)

codeCatcher_Flush(s, hasFlusher) ==
    LET s1 == codeCatcher_WriteHeader(s, s.cc.code) IN
    IF hasFlusher THEN [cc |-> s1.cc, rw |-> SinkFlush(s1.rw)] ELSE s1

\* Hijack that begins with WriteHeader(cc.code), as Write and Flush do.
codeCatcher_Hijack_commits(s, hasHijacker, typ) ==
    LET s1 == codeCatcher_WriteHeader(s, s.cc.code) IN
    IF hasHijacker
    THEN [cc |-> s1.cc, rw |-> SinkHijack(s1.rw), err |-> "nil"]
    ELSE [cc |-> s1.cc, rw |-> s1.rw, err |-> NotHijackerError(typ)]

\* typ is the concrete type of responseWriter.
codeCatcher_Hijack(s, hasHijacker, typ) ==
    IF hasHijacker
    THEN [cc |-> s.cc, rw |-> SinkHijack(s.rw), err |-> "nil"]
    ELSE [cc |-> s.cc, rw |-> s.rw, err |-> NotHijackerError(typ)]

\* --------------------------------------------- httputil.CodeCatcher (exported)
NewCodeCatcher(httpCodeRanges) ==
    [wroteHeader        |-> FALSE,
     headerMap          |-> EmptyHeader,
     code               |-> StatusOK,
     httpCodeRanges     |-> httpCodeRanges,
     caughtFilteredCode |-> FALSE,
     headersSent        |-> FALSE]

RECURSIVE CodeCatcher_rangeLoop(_, _, _)
CodeCatcher_rangeLoop(code, ranges, i) ==
    IF i > Len(ranges) THEN FALSE
    ELSE IF code >= ranges[i][1] /\ code <= ranges[i][2] THEN TRUE
    ELSE CodeCatcher_rangeLoop(code, ranges, i + 1)

GetCode(c) == c.code

IsFilteredCode(c) == c.caughtFilteredCode

CodeCatcher_WriteHeader(s, code) ==
    IF s.cc.headersSent \/ s.cc.caughtFilteredCode THEN s
    ELSE LET c1 == [s.cc EXCEPT !.code = code] IN
         IF CodeCatcher_rangeLoop(c1.code, c1.httpCodeRanges, 1)
         THEN [cc |-> [c1 EXCEPT !.caughtFilteredCode = TRUE], rw |-> s.rw]
         ELSE LET w1 == [s.rw EXCEPT !.header = CopyHeaders(@, c1.headerMap)]
                  w2 == SinkWriteHeader(w1, c1.code)
              IN  [cc |-> [c1 EXCEPT !.headersSent = TRUE], rw |-> w2]

\* The caughtFilteredCode test of Write is commented out in this type: the
\* payload always goes to the real sink.
CodeCatcher_Write(s, buf, out) ==
    LET s1 == CodeCatcher_WriteHeader(s, s.cc.code) IN
    [cc |-> s1.cc, rw |-> SinkWrite(s1.rw, buf), n |-> out.n, err |-> out.err]

CodeCatcher_Flush(s, hasFlusher) ==
    LET s1 == CodeCatcher_WriteHeader(s, s.cc.code) IN
    IF hasFlusher THEN [cc |-> s1.cc, rw |-> SinkFlush(s1.rw)] ELSE s1

CodeCatcher_Hijack(s, hasHijacker, typ) ==
    IF hasHijacker
    THEN [cc |-> s.cc, rw |-> SinkHijack(s.rw), err |-> "nil"]
    ELSE [cc |-> s.cc, rw |-> s.rw, err |-> NotHijackerError(typ)]

\* codeCatcher.getHeader("Content-Encoding"): the first value of the header in
\* the real sink's header map, "" when there is none.
getContentEncoding(w) ==
    IF "Content-Encoding" \in DOMAIN w.header /\ Len(w.header["Content-Encoding"]) > 0
    THEN w.header["Content-Encoding"][1]
    ELSE ""

\* compressutil.Encode(data, encoding): a reversible transform for gzip and
\* deflate, here the payload behind a marker of the codec; the payload itself
\* for identity and for no encoding.
Encode(data, encoding) ==
    IF encoding \in {"gzip", "deflate"} THEN <<encoding>> \o data ELSE data

\* SetContent that sends the recorded status itself when the interceptor
\* caught a filtered code: it copies the buffered headers and calls the real
\* sink's WriteHeader before the body.
CodeCatcher_SetContent_sendsStatus(s, data) ==
    LET bodyBytes == Encode(data, getContentEncoding(s.rw))
        s1 == IF ~s.cc.wroteHeader THEN CodeCatcher_WriteHeader(s, StatusOK) ELSE s
        w1 == IF s1.cc.caughtFilteredCode
              THEN SinkWriteHeader([s1.rw EXCEPT !.header = CopyHeaders(@, s1.cc.headerMap)],
                                   s1.cc.code)
              ELSE s1.rw
    IN  [cc |-> s1.cc, rw |-> SinkWrite(w1, bodyBytes)]

\* SetContent: encode for the sink's Content-Encoding, call the interceptor's
\* own WriteHeader(StatusOK) because wroteHeader is not set, then write on the
\* embedded ResponseWriter.
CodeCatcher_SetContent(s, data) ==
    LET bodyBytes == Encode(data, getContentEncoding(s.rw))
        s1 == IF ~s.cc.wroteHeader THEN CodeCatcher_WriteHeader(s, StatusOK) ELSE s
    IN  [cc |-> s1.cc, rw |-> SinkWrite(s1.rw, bodyBytes)]

\* ------------------------------------------------------------------ state
\* Payloads of at most MaxBuf bytes: the prefixes of "abab...".
Bufs == {[i \in 1..n |-> IF i % 2 = 1 THEN "a" ELSE "b"] : n \in 0..MaxBuf}

\* Header maps the real sink may already hold when it is wrapped.
SinkHeaders ==
    { EmptyHeader, [k \in {"Set-Cookie"} |-> <<"p1", "p2">>] }

Cur == [cc |-> cc, rw |-> rw]

Init ==
    /\ impl \in Impls
    /\ \E r \in RangeSets :
          cc = IF impl = "codeCatcher" THEN newCodeCatcher(r) ELSE NewCodeCatcher(r)
    /\ \E h \in SinkHeaders : rw = [header |-> h, calls |-> << >>]
    /\ caps \in [flusher : BOOLEAN, hijacker : BOOLEAN]
    /\ last = NoResult
    /\ inBody = << >>
    /\ explicit = FALSE
    /\ nCalls = 0
    /\ sinkRet = NoSinkRet
    /\ mw = [lastModified |-> FALSE, httpCodeRanges |-> << >>]
    /\ req = << >>
    /\ catchers = << >>
    /\ sinks = << >>

Called == nCalls < MaxCalls /\ nCalls' = nCalls + 1

\* cc.Header().Add(k, v)
CallHeaderAdd(k, v) ==
    /\ Called
    /\ cc' = [cc EXCEPT !.headerMap = HeaderAdd(@, k, v)]
    /\ last' = Result("Header", 0, << >>, 0, "nil")
    /\ sinkRet' = NoSinkRet
    /\ UNCHANGED <<serveVars, impl, rw, caps, inBody, explicit>>

\* cc.Header().Set(k, v)
CallHeaderSet(k, v) ==
    /\ Called
    /\ cc' = [cc EXCEPT !.headerMap = HeaderSet(@, k, v)]
    /\ last' = Result("Header", 0, << >>, 0, "nil")
    /\ sinkRet' = NoSinkRet
    /\ UNCHANGED <<serveVars, impl, rw, caps, inBody, explicit>>

\* cc.Header().Del(k)
CallHeaderDel(k) ==
    /\ Called
    /\ cc' = [cc EXCEPT !.headerMap = HeaderDel(@, k)]
    /\ last' = Result("Header", 0, << >>, 0, "nil")
    /\ sinkRet' = NoSinkRet
    /\ UNCHANGED <<serveVars, impl, rw, caps, inBody, explicit>>

CallWriteHeader(code) ==
    /\ Called
    /\ LET s1 == IF impl = "codeCatcher" THEN codeCatcher_WriteHeader(Cur, code)
                 ELSE CodeCatcher_WriteHeader(Cur, code)
       IN  cc' = s1.cc /\ rw' = s1.rw
    /\ last' = Result("WriteHeader", code, << >>, 0, "nil")
    /\ explicit' = TRUE
    /\ sinkRet' = NoSinkRet
    /\ UNCHANGED <<serveVars, impl, caps, inBody>>

CallWrite(buf) ==
    /\ Called
    /\ \E out \in SinkWriteOutcomes(buf) :
         LET s1 == IF impl = "codeCatcher" THEN codeCatcher_Write(Cur, buf, out)
                   ELSE CodeCatcher_Write(Cur, buf, out)
         IN  /\ cc' = s1.cc
             /\ rw' = s1.rw
             /\ last' = Result("Write", 0, buf, s1.n, s1.err)
             /\ sinkRet' = IF /\ Len(s1.rw.calls) > Len(rw.calls)
                              /\ s1.rw.calls[Len(s1.rw.calls)].op = "Write"
                           THEN out ELSE NoSinkRet
    /\ inBody' = inBody \o buf
    /\ UNCHANGED <<serveVars, impl, caps, explicit>>

CallFlush ==
    /\ Called
    /\ LET s1 == IF impl = "codeCatcher" THEN codeCatcher_Flush(Cur, caps.flusher)
                 ELSE CodeCatcher_Flush(Cur, caps.flusher)
       IN  cc' = s1.cc /\ rw' = s1.rw
    /\ last' = Result("Flush", 0, << >>, 0, "nil")
    /\ sinkRet' = NoSinkRet
    /\ UNCHANGED <<serveVars, impl, caps, inBody, explicit>>

CallHijack ==
    /\ Called
    /\ LET s1 == IF impl = "codeCatcher" THEN codeCatcher_Hijack(Cur, caps.hijacker, SinkType(caps))
                 ELSE CodeCatcher_Hijack(Cur, caps.hijacker, SinkType(caps))
       IN  /\ cc' = s1.cc
           /\ rw' = s1.rw
           /\ last' = Result("Hijack", 0, << >>, 0, s1.err)
    /\ sinkRet' = NoSinkRet
    /\ UNCHANGED <<serveVars, impl, caps, inBody, explicit>>

Next ==
    \/ \E a \in AddArgs : CallHeaderAdd(a[1], a[2])
    \/ \E a \in SetArgs : CallHeaderSet(a[1], a[2])
    \/ \E k \in HeaderNames : CallHeaderDel(k)
    \/ \E code \in Codes : CallWriteHeader(code)
    \/ \E buf \in Bufs : CallWrite(buf)
    \/ CallFlush
    \/ CallHijack

Spec == Init /\ [][Next]_vars

TypeOK ==
    /\ impl \in Impls
    /\ cc.code \in Codes
    /\ cc.caughtFilteredCode \in BOOLEAN
    /\ cc.headersSent \in BOOLEAN
    /\ nCalls \in 0..MaxCalls

\* ------------------------------------- httputil.CodeCatcher with SetContent
\* Range collections of the interceptor whose content is replaced: one that
\* filters server errors only, and one that also holds the default status.
ContentRangeSets == { << <<500, 599>> >>, << <<200, 299>>, <<500, 599>> >> }
\* Header maps of the real sink: no encoding, or a compressed response.
ContentSinkHeaders == { EmptyHeader, [k \in {"Content-Encoding"} |-> <<"gzip">>] }
ContentCaps == { [flusher |-> TRUE, hijacker |-> TRUE], [flusher |-> FALSE, hijacker |-> FALSE] }

InitContent ==
    /\ impl = "CodeCatcher"
    /\ \E r \in ContentRangeSets : cc = NewCodeCatcher(r)
    /\ \E h \in ContentSinkHeaders : rw = [header |-> h, calls |-> << >>]
    /\ caps \in ContentCaps
    /\ last = NoResult
    /\ inBody = << >>
    /\ explicit = FALSE
    /\ nCalls = 0
    /\ sinkRet = NoSinkRet
    /\ mw = [lastModified |-> FALSE, httpCodeRanges |-> << >>]
    /\ req = << >>
    /\ catchers = << >>
    /\ sinks = << >>

\* codeCatcher.SetContent(data); the error of the sink's Write is only logged.
CallSetContent(data) ==
    /\ Called
    /\ impl = "CodeCatcher"
    /\ LET s1 == CodeCatcher_SetContent(Cur, data)
       IN  cc' = s1.cc /\ rw' = s1.rw
    /\ last' = Result("SetContent", 0, data, 0, "nil")
    /\ sinkRet' \in SinkWriteOutcomes(Encode(data, getContentEncoding(rw)))
    /\ UNCHANGED <<serveVars, impl, caps, inBody, explicit>>

NextContent ==
    \/ \E a \in AddArgs : CallHeaderAdd(a[1], a[2])
    \/ \E a \in SetArgs : CallHeaderSet(a[1], a[2])
    \/ \E k \in HeaderNames : CallHeaderDel(k)
    \/ \E code \in Codes : CallWriteHeader(code)
    \/ \E buf \in Bufs : CallWrite(buf)
    \/ CallFlush
    \/ CallHijack
    \/ \E data \in Bufs : CallSetContent(data)

SpecContent == InitContent /\ [][NextContent]_vars

\* ------------------------------------------- rewriteBody.ServeHTTP (middleware)
\* Calls that the next handlers of all requests make in total.
MaxHandlerCalls == 3

Reqs == {1, 2}

\* Strings that are searched are sequences of characters.
websocket == <<"w", "e", "b", "s", "o", "c", "k", "e", "t">>
WebSocket == <<"W", "e", "b", "S", "o", "c", "k", "e", "t">>
h2c == <<"h", "2", "c">>

\* strings.Contains(str, substr)
Contains(str, substr) ==
    \E i \in 0..(Len(str) - Len(substr)) : SubSeq(str, i + 1, i + Len(substr)) = substr

\* h.Get(k): the first value of k, "" if there is none.
HeaderGet(h, k) == IF k \in DOMAIN h /\ Len(h[k]) > 0 THEN h[k][1] ELSE << >>

\* SupportsProcessing without the method test.
SupportsProcessing_anyMethod(request) ==
    IF Contains(HeaderGet(request.header, "Upgrade"), websocket) THEN FALSE ELSE TRUE

SupportsProcessing(request) ==
    IF request.method # "GET" THEN FALSE
    ELSE IF Contains(HeaderGet(request.header, "Upgrade"), websocket) THEN FALSE
    ELSE TRUE

\* New(ctx, next, config, name): the fields of the rewriteBody it returns
\* that ServeHTTP and the interceptor could use.
New(config) ==
    [lastModified |-> config.lastModified, httpCodeRanges |-> config.httpCodeRanges]

\* &codeCatcher{...} with the address of another live catcher.
AllocCatcher_shared(heap) ==
    IF heap = << >> THEN Cardinality(DOMAIN heap) + 1 ELSE Cardinality(DOMAIN heap)

\* &codeCatcher{...}: the address of a fresh object.
AllocCatcher(heap) == Cardinality(DOMAIN heap) + 1

\* Request headers: no Upgrade, a websocket upgrade, the same in another
\* case, another protocol, a list on one line and a list on two lines.
RequestHeaders ==
    { EmptyHeader,
      [k \in {"Upgrade"} |-> <<websocket>>],
      [k \in {"Upgrade"} |-> <<WebSocket>>],
      [k \in {"Upgrade"} |-> <<h2c>>],
      [k \in {"Upgrade"} |-> <<h2c \o <<",", " ">> \o websocket>>],
      [k \in {"Upgrade"} |-> <<h2c, websocket>>] }
Methods == {"GET", "POST"}

\* A request whose ServeHTTP call has not begun.
Request(method, header) ==
    [method |-> method, header |-> header, pc |-> "start", w |-> "none",
     cid |-> 0, n |-> 0, fh |-> FALSE]

\* The slot of a request that never arrives.
AbsentRequest == [Request("GET", EmptyHeader) EXCEPT !.pc = "absent"]

Requests == {Request(m, h) : m \in Methods, h \in RequestHeaders}

\* Inputs of the serving model.
ServeRangeSets == { << <<500, 599>> >>, << <<200, 299>>, <<500, 599>> >> }
ServeCaps == { [flusher |-> TRUE, hijacker |-> TRUE], [flusher |-> FALSE, hijacker |-> FALSE] }
ServeCodes == {200, 500}
ServeBufs == { <<"a">> }
\* The header map of the real sink when ServeHTTP is called.
ServeSinkHeader == [k \in {"Set-Cookie"} |-> <<"p1">>]

CoreIdle ==
    /\ impl = "codeCatcher"
    /\ cc = newCodeCatcher(<< >>)
    /\ rw = [header |-> EmptyHeader, calls |-> << >>]
    /\ last = NoResult
    /\ inBody = << >>
    /\ explicit = FALSE
    /\ nCalls = 0
    /\ sinkRet = NoSinkRet

\* One request is served.
InitServe ==
    /\ CoreIdle
    /\ caps \in ServeCaps
    /\ \E lm \in BOOLEAN, r \in ServeRangeSets :
         mw = New([lastModified |-> lm, httpCodeRanges |-> r])
    /\ \E q \in Requests : req = [r \in Reqs |-> IF r = 1 THEN q ELSE AbsentRequest]
    /\ catchers = << >>
    /\ sinks = [r \in Reqs |-> [header |-> ServeSinkHeader, calls |-> << >>]]

\* Two requests are served at the same time by one middleware instance; the
\* first is wrapped, the second is a GET or a POST.
InitConc ==
    /\ CoreIdle
    /\ caps = [flusher |-> TRUE, hijacker |-> TRUE]
    /\ \E lm \in BOOLEAN, r \in ServeRangeSets :
         mw = New([lastModified |-> lm, httpCodeRanges |-> r])
    /\ \E m \in Methods :
         req = [r \in Reqs |-> IF r = 1 THEN Request("GET", EmptyHeader)
                                ELSE Request(m, EmptyHeader)]
    /\ catchers = << >>
    /\ sinks = [r \in Reqs |-> [header |-> ServeSinkHeader, calls |-> << >>]]

\* ServeHTTP up to the call of next.ServeHTTP: with the real sink when the
\* request is not supported, with a new codeCatcher otherwise.
ServeHTTP_Begin(r) ==
    /\ req[r].pc = "start"
    /\ IF ~SupportsProcessing(req[r])
       THEN /\ req' = [req EXCEPT ![r].pc = "next", ![r].w = "response"]
            /\ UNCHANGED catchers
       ELSE LET id == AllocCatcher(catchers) IN
            /\ catchers' = [x \in (DOMAIN catchers) \cup {id} |->
                              IF x = id THEN newCodeCatcher(mw.httpCodeRanges)
                              ELSE catchers[x]]
            /\ req' = [req EXCEPT ![r].pc = "next", ![r].w = "catcher", ![r].cid = id]
    /\ UNCHANGED <<coreVars, caps, mw, sinks>>

\* The next handler of request r may make one more call.
HandlerCalls(r) ==
    /\ req[r].pc = "next"
    /\ req[1].n + req[2].n < MaxHandlerCalls

\* The interceptor and the real sink of request r.
Cat(r) == [cc |-> catchers[req[r].cid], rw |-> sinks[r]]

\* The handler of request r made a call that left s1.
Handled(r, s1, forh) ==
    /\ catchers' = [catchers EXCEPT ![req[r].cid] = s1.cc]
    /\ sinks' = [sinks EXCEPT ![r] = s1.rw]
    /\ req' = [req EXCEPT ![r].n = @ + 1, ![r].fh = @ \/ forh]
    /\ UNCHANGED <<coreVars, caps, mw>>

\* w.Header().Add(k, v) on the interceptor
HandlerHeaderAdd(r, k, v) ==
    /\ HandlerCalls(r) /\ req[r].w = "catcher"
    /\ Handled(r, [cc |-> [Cat(r).cc EXCEPT !.headerMap = HeaderAdd(@, k, v)],
                   rw |-> Cat(r).rw], FALSE)

\* w.Header().Set(k, v) on the interceptor
HandlerHeaderSet(r, k, v) ==
    /\ HandlerCalls(r) /\ req[r].w = "catcher"
    /\ Handled(r, [cc |-> [Cat(r).cc EXCEPT !.headerMap = HeaderSet(@, k, v)],
                   rw |-> Cat(r).rw], FALSE)

HandlerWriteHeader(r, code) ==
    /\ HandlerCalls(r) /\ req[r].w = "catcher"
    /\ Handled(r, codeCatcher_WriteHeader(Cat(r), code), FALSE)

HandlerWrite(r, buf) ==
    /\ HandlerCalls(r) /\ req[r].w = "catcher"
    /\ \E out \in SinkWriteOutcomes(buf) :
         Handled(r, codeCatcher_Write(Cat(r), buf, out), FALSE)

HandlerFlush(r) ==
    /\ HandlerCalls(r) /\ req[r].w = "catcher"
    /\ Handled(r, codeCatcher_Flush(Cat(r), caps.flusher), TRUE)

HandlerHijack(r) ==
    /\ HandlerCalls(r) /\ req[r].w = "catcher"
    /\ Handled(r, codeCatcher_Hijack(Cat(r), caps.hijacker, SinkType(caps)), TRUE)

\* The handler of an unsupported request has the real sink itself.
DirectHeaderSet(r, k, v) ==
    /\ HandlerCalls(r) /\ req[r].w = "response"
    /\ sinks' = [sinks EXCEPT ![r].header = HeaderSet(@, k, v)]
    /\ req' = [req EXCEPT ![r].n = @ + 1]
    /\ UNCHANGED <<coreVars, caps, mw, catchers>>

DirectWriteHeader(r, code) ==
    /\ HandlerCalls(r) /\ req[r].w = "response"
    /\ sinks' = [sinks EXCEPT ![r] = SinkWriteHeader(@, code)]
    /\ req' = [req EXCEPT ![r].n = @ + 1]
    /\ UNCHANGED <<coreVars, caps, mw, catchers>>

DirectWrite(r, buf) ==
    /\ HandlerCalls(r) /\ req[r].w = "response"
    /\ sinks' = [sinks EXCEPT ![r] = SinkWrite(@, buf)]
    /\ req' = [req EXCEPT ![r].n = @ + 1]
    /\ UNCHANGED <<coreVars, caps, mw, catchers>>

\* ServeHTTP that answers a filtered response itself: it writes a body to
\* the real sink before it returns.
ServeHTTP_Return_substitute(r) ==
    /\ req[r].pc = "next"
    /\ req' = [req EXCEPT ![r].pc = "done"]
    /\ IF req[r].w = "catcher" /\ isFilteredCode(catchers[req[r].cid])
       THEN sinks' = [sinks EXCEPT ![r] = SinkWrite(@, <<"e">>)]
       ELSE UNCHANGED sinks
    /\ UNCHANGED <<coreVars, caps, mw, catchers>>

\* next.ServeHTTP returns and ServeHTTP runs to its end: for an unsupported
\* request it returns at once; otherwise it reads getCode and isFilteredCode
\* and returns, filtered or not, without a call on the real sink.
ServeHTTP_Return(r) ==
    /\ req[r].pc = "next"
    /\ req' = [req EXCEPT ![r].pc = "done"]
    /\ UNCHANGED <<coreVars, caps, mw, catchers, sinks>>

NextServe ==
    \/ \E r \in Reqs : ServeHTTP_Begin(r)
    \/ \E r \in Reqs : HandlerHeaderAdd(r, "Set-Cookie", "v1")
    \/ \E r \in Reqs : HandlerHeaderSet(r, "Last-Modified", "v1")
    \/ \E r \in Reqs, code \in ServeCodes : HandlerWriteHeader(r, code)
    \/ \E r \in Reqs, buf \in ServeBufs : HandlerWrite(r, buf)
    \/ \E r \in Reqs : HandlerFlush(r)
    \/ \E r \in Reqs : HandlerHijack(r)
    \/ \E r \in Reqs : DirectHeaderSet(r, "Last-Modified", "v1")
    \/ \E r \in Reqs, code \in ServeCodes : DirectWriteHeader(r, code)
    \/ \E r \in Reqs, buf \in ServeBufs : DirectWrite(r, buf)
    \/ \E r \in Reqs : ServeHTTP_Return(r)

SpecServe == InitServe /\ [][NextServe]_vars

SpecConc == InitConc /\ [][NextServe]_vars

\* ------------------------------------------------------------- properties
\* The three states of the interceptor.
Open == ~cc.headersSent /\ ~cc.caughtFilteredCode
Committed == cc.headersSent
Filtered == cc.caughtFilteredCode

\* The calls of one kind the real sink has received, in order.
SinkCalls(op) == SelectSeq(rw.calls, LAMBDA c : c.op = op)

\* The body bytes passed to the real sink's Write, concatenated in call order.
RECURSIVE Concat(_)
Concat(calls) == IF calls = << >> THEN << >> ELSE Head(calls).buf \o Concat(Tail(calls))
SinkBody == Concat(SinkCalls("Write"))

\* C1: for the internal codeCatcher, a Write made in FILTERED state returns
\* (len(buf), nil) and causes no call on, and no header change of, the real
\* sink.
C1_FilteredWriteAbsorbed ==
    [][(impl = "codeCatcher" /\ Filtered /\ last'.op = "Write")
         => /\ last'.n = Len(last'.buf)
            /\ last'.err = "nil"
            /\ rw' = rw]_vars

\* Two non-empty payloads were written to a filtered internal interceptor
\* after an explicit WriteHeader and the real sink has received nothing.
C1_Witness ==
    /\ impl = "codeCatcher"
    /\ Filtered
    /\ explicit
    /\ last.op = "Write"
    /\ last.buf # << >>
    /\ Len(inBody) > Len(last.buf)
    /\ last.n = Len(last.buf)
    /\ rw.calls = << >>

\* C2: for the exported CodeCatcher, a Write made in FILTERED state returns
\* (len(buf), nil) and the real sink receives none of the payload.
C2_ExportedFilteredWriteDiscards ==
    [][(impl = "CodeCatcher" /\ Filtered /\ last'.op = "Write")
         => /\ last'.n = Len(last'.buf)
            /\ last'.err = "nil"
            /\ rw'.calls = rw.calls]_vars

\* C3: headersSent and caughtFilteredCode are never both true.
C3_NotBothFlags == ~(cc.headersSent /\ cc.caughtFilteredCode)

\* A filtered interceptor on which WriteHeader was called again, after a
\* Flush, with a status that matches no range.
C3_Witness ==
    /\ Filtered
    /\ last.op = "WriteHeader"
    /\ last.code = 200
    /\ cc.code = 500
    /\ SinkCalls("Flush") # << >>

\* C4: a WriteHeader call made in COMMITTED or FILTERED state changes neither
\* the interceptor's fields nor the real sink.
C4_SecondWriteHeaderNoOp ==
    [][(~Open /\ last'.op = "WriteHeader") => (cc' = cc /\ rw' = rw)]_vars

\* A committed interceptor that forwarded a body and was then given a
\* WriteHeader with another, filtered, status.
C4_Witness ==
    /\ Committed
    /\ last.op = "WriteHeader"
    /\ last.code = 500
    /\ cc.code = 200
    /\ cc.httpCodeRanges = << <<500, 599>> >>
    /\ SinkBody # << >>

\* The status the interceptor reports to its caller.
Code == IF impl = "codeCatcher" THEN getCode(cc) ELSE GetCode(cc)

\* Some configured range holds code, both ends included.
InSomeRange(code) ==
    \E i \in 1..Len(cc.httpCodeRanges) :
        cc.httpCodeRanges[i][1] <= code /\ code <= cc.httpCodeRanges[i][2]

\* C5: in COMMITTED state the bytes handed to the real sink's Write are, in
\* order, exactly the bytes passed to the interceptor's Write, and every
\* Write is handed to the real sink during the call itself, as the last call
\* the real sink receives in it.
C5_CommittedPassThrough ==
    /\ [](Committed => SinkBody = inBody)
    /\ [][(Committed' /\ last'.op = "Write")
            => /\ Len(rw'.calls) = Len(rw.calls) + (IF Committed THEN 1 ELSE 2)
               /\ rw'.calls[Len(rw'.calls)].op = "Write"
               /\ rw'.calls[Len(rw'.calls)].buf = last'.buf
               /\ SubSeq(rw'.calls, 1, Len(rw.calls)) = rw.calls]_vars

\* A committed interceptor that was given "ab" and then "a": the real sink
\* holds "aba" in two Write calls.
C5_Witness ==
    /\ Committed
    /\ last.op = "Write"
    /\ inBody = <<"a", "b", "a">>
    /\ SinkBody = <<"a", "b", "a">>
    /\ Len(SinkCalls("Write")) = 2

\* C6: at the step that commits, every header name of the buffer holds in
\* the real sink the values the real sink had for it followed by the
\* buffered values in buffered order, every other name of the real sink
\* keeps its values, and this merged header map is the one the real sink
\* has when it receives the status.
C6_HeadersMergedOnCommit ==
    [][(~Committed /\ Committed')
         => /\ DOMAIN rw'.header = (DOMAIN rw.header) \cup (DOMAIN cc.headerMap)
            /\ \A k \in DOMAIN cc.headerMap :
                  /\ Len(rw'.header[k]) = Len(Values(rw.header, k)) + Len(cc.headerMap[k])
                  /\ \A i \in 1..Len(Values(rw.header, k)) :
                        rw'.header[k][i] = rw.header[k][i]
                  /\ \A i \in 1..Len(cc.headerMap[k]) :
                        rw'.header[k][Len(Values(rw.header, k)) + i] = cc.headerMap[k][i]
            /\ \A k \in (DOMAIN rw.header) \ (DOMAIN cc.headerMap) :
                  rw'.header[k] = rw.header[k]
            /\ \E j \in 1..Len(rw'.calls) :
                  /\ rw'.calls[j].op = "WriteHeader"
                  /\ rw'.calls[j].header = rw'.header]_vars

\* Two values buffered for a name that the real sink already held two values
\* for, then an explicit WriteHeader that committed.
C6_Witness ==
    /\ Committed
    /\ last.op = "WriteHeader"
    /\ "Set-Cookie" \in DOMAIN rw.header
    /\ rw.header["Set-Cookie"] = <<"p1", "p2", "v2", "v1">>
    /\ cc.headerMap["Set-Cookie"] = <<"v2", "v1">>

\* C7: while the caller has not called WriteHeader, a Write or Flush made in
\* OPEN state takes the transition, and a transition taken that way is taken
\* with status 200: getCode is 200, the interceptor is FILTERED iff 200 lies
\* in a configured range, and otherwise every Write and Flush the real sink
\* has received comes after a WriteHeader(200).
C7_ImplicitStatusOK ==
    /\ []((~explicit /\ ~Open)
            => /\ Code = 200
               /\ Filtered <=> InSomeRange(200)
               /\ Committed =>
                     \A j \in 1..Len(rw.calls) :
                        rw.calls[j].op \in {"Write", "Flush"}
                          => \E i \in 1..(j - 1) :
                               rw.calls[i].op = "WriteHeader" /\ rw.calls[i].code = 200)
    /\ [][(~explicit /\ Open /\ last'.op \in {"Write", "Flush"}) => ~Open']_vars

\* A WriteHeader-free run that committed by a Write and whose real sink got
\* WriteHeader(200) and then the body.
C7_Witness ==
    /\ ~explicit
    /\ Committed
    /\ Code = 200
    /\ Len(rw.calls) >= 2
    /\ rw.calls[1].op = "WriteHeader"
    /\ rw.calls[1].code = 200
    /\ rw.calls[2].op = "Write"

\* A WriteHeader-free run that a Flush moved to FILTERED because 200 is in a
\* configured range.
C7_WitnessFiltered ==
    /\ ~explicit
    /\ Filtered
    /\ last.op = "Flush"
    /\ nCalls = 1

\* C8: a WriteHeader(C) made in OPEN state leaves the interceptor FILTERED
\* iff some configured range has low <= C <= high, and COMMITTED otherwise.
C8_FilteredIffInRange ==
    [][(Open /\ last'.op = "WriteHeader")
         => /\ Filtered' <=> InSomeRange(last'.code)
            /\ Committed' <=> ~InSomeRange(last'.code)]_vars

\* The first WriteHeader carried 599, the upper end of [500, 599], with the
\* overlapping range [599, 600] also configured: FILTERED.
C8_Witness ==
    /\ Filtered
    /\ last.op = "WriteHeader"
    /\ last.code = 599
    /\ Code = 599
    /\ nCalls = 1
    /\ cc.httpCodeRanges = << <<500, 599>>, <<599, 600>> >>

\* C9: Flush takes the transition and then calls the real sink's Flush only
\* if the interceptor is not FILTERED and the real sink has the capability;
\* otherwise the real sink receives no call.
C9_FlushOnlyWhenNotFiltered ==
    [][(last'.op = "Flush")
         => /\ ~Open'
            /\ IF Filtered' \/ ~caps.flusher
               THEN SelectSeq(rw'.calls, LAMBDA c : c.op # "WriteHeader")
                      = SelectSeq(rw.calls, LAMBDA c : c.op # "WriteHeader")
               ELSE rw'.calls[Len(rw'.calls)].op = "Flush"]_vars

\* C10: once headersSent is true the recorded status never changes and is
\* the status of the one WriteHeader call the real sink has received.
C10_CommittedCodeImmutable ==
    /\ [](Committed
            => /\ Len(SinkCalls("WriteHeader")) = 1
               /\ SinkCalls("WriteHeader")[1].code = Code)
    /\ [][Committed => (Committed' /\ cc'.code = cc.code)]_vars

\* A committed interceptor that was then given WriteHeader with another,
\* unfiltered, status.
C10_Witness ==
    /\ Committed
    /\ last.op = "WriteHeader"
    /\ last.code = 499
    /\ Code = 200
    /\ nCalls >= 2

\* C11: a header mutation made through Header() in OPEN state changes the
\* interceptor's header buffer only and leaves the real sink as it was, and
\* the step that takes the interceptor from OPEN to FILTERED leaves the
\* real sink's header map unchanged.
C11_OpenHeadersPrivate ==
    [][/\ (Open /\ last'.op = "Header")
            => (rw' = rw /\ cc' = [cc EXCEPT !.headerMap = cc'.headerMap])
       /\ (Open /\ Filtered') => rw'.header = rw.header]_vars

\* Two headers were buffered, the status was then filtered, and the real
\* sink still holds the header map it was wrapped with.
C11_Witness ==
    /\ Filtered
    /\ last.op = "WriteHeader"
    /\ DOMAIN cc.headerMap = {"Set-Cookie", "Last-Modified"}
    /\ rw.header = [k \in {"Set-Cookie"} |-> <<"p1", "p2">>]
    /\ rw.calls = << >>

\* C13: Hijack calls the real sink's Hijack when it has the capability and
\* otherwise returns the error that names the real sink's type; either way
\* the interceptor's fields and the real sink's header map are unchanged
\* and the real sink receives no other call.
C13_HijackBypasses ==
    [][(last'.op = "Hijack")
         => /\ cc' = cc
            /\ rw'.header = rw.header
            /\ IF caps.hijacker
               THEN /\ last'.err = "nil"
                    /\ Len(rw'.calls) = Len(rw.calls) + 1
                    /\ SubSeq(rw'.calls, 1, Len(rw.calls)) = rw.calls
                    /\ rw'.calls[Len(rw'.calls)].op = "Hijack"
               ELSE /\ last'.err = NotHijackerError(SinkType(caps))
                    /\ last'.err # "nil"
                    /\ rw'.calls = rw.calls]_vars

\* Hijack on an OPEN interceptor with buffered headers whose real sink is a
\* flusher but no hijacker: the error names the type and the interceptor is
\* still OPEN.
C13_Witness ==
    /\ Open
    /\ last.op = "Hijack"
    /\ last.err = "*flushWriter is not a http.Hijacker"
    /\ DOMAIN cc.headerMap # {}
    /\ rw.calls = << >>

\* C15: a Write that leaves the interceptor COMMITTED returns the byte count
\* and the error that the real sink's Write returned in that call.
C15_WriteErrorSurfaced ==
    [][(Committed' /\ last'.op = "Write")
         => /\ sinkRet' # NoSinkRet
            /\ last'.n = sinkRet'.n
            /\ last'.err = sinkRet'.err]_vars

\* The real sink failed after one of two bytes and the caller got (1, EIO).
C15_Witness ==
    /\ Committed
    /\ last.op = "Write"
    /\ last.buf = <<"a", "b">>
    /\ last.n = 1
    /\ last.err = "EIO"
    /\ sinkRet = [n |-> 1, err |-> "EIO"]

\* C16: COMMITTED and FILTERED are terminal: a set flag stays set and the
\* other flag stays clear.
C16_TerminalStates ==
    [][/\ Committed => (Committed' /\ ~Filtered')
       /\ Filtered => (Filtered' /\ ~Committed')]_vars

\* A filtered interceptor that was given WriteHeader, Write and Hijack.
C16_Witness ==
    /\ Filtered
    /\ explicit
    /\ inBody # << >>
    /\ last.op = "Hijack"

\* C18: the real sink of an internal codeCatcher receives at most one
\* WriteHeader call, and no Write or Flush call before it.
C18_SingleWriteHeaderFirst ==
    impl = "codeCatcher"
      => /\ Len(SinkCalls("WriteHeader")) <= 1
         /\ \A i, j \in 1..Len(rw.calls) :
               (rw.calls[i].op = "WriteHeader" /\ rw.calls[j].op \in {"Write", "Flush"})
                 => i < j

\* An internal codeCatcher that committed by a Flush and then wrote a body:
\* the real sink received WriteHeader, Flush, Write.
C18_Witness ==
    /\ impl = "codeCatcher"
    /\ Len(rw.calls) = 3
    /\ rw.calls[1].op = "WriteHeader"
    /\ rw.calls[2].op = "Flush"
    /\ rw.calls[3].op = "Write"
    /\ rw.calls[3].buf # << >>

\* C20: once the interceptor is COMMITTED no step changes the real sink's
\* header map, and a header mutation made through Header() changes nothing
\* of the real sink in any state.
C20_LateHeadersStayPrivate ==
    [][/\ Committed => rw'.header = rw.header
       /\ (last'.op = "Header") => rw' = rw]_vars

\* A header set after the commit is in the buffer and not in the real sink.
C20_Witness ==
    /\ Committed
    /\ last.op = "Header"
    /\ "Last-Modified" \in DOMAIN cc.headerMap
    /\ "Last-Modified" \notin DOMAIN rw.header

\* The value v has the characters of "websocket" in a row somewhere.
HasWebsocket(v) ==
    \E i \in 1..Len(v) :
        \A j \in 1..Len(websocket) :
            i + j - 1 <= Len(v) /\ v[i + j - 1] = websocket[j]

\* The Upgrade header of a request as Header.Get reads it: its first value.
UpgradeOf(q) ==
    IF "Upgrade" \in DOMAIN q.header /\ q.header["Upgrade"] # << >>
    THEN q.header["Upgrade"][1] ELSE << >>

\* The request is a GET whose Upgrade header does not contain "websocket".
Eligible(q) == q.method = "GET" /\ ~HasWebsocket(UpgradeOf(q))

\* C12: when ServeHTTP calls the next handler, it passes a newly created
\* interceptor if the request is a GET whose Upgrade header (its first
\* value, which is what Header.Get reads) does not contain "websocket", and
\* otherwise it passes the real sink and creates no interceptor.
C12_WrapOnlyEligible ==
    [][\A r \in Reqs :
         (req[r].pc = "start" /\ req'[r].pc = "next")
           => IF Eligible(req[r])
              THEN /\ req'[r].w = "catcher"
                   /\ req'[r].cid \notin DOMAIN catchers
                   /\ DOMAIN catchers' = (DOMAIN catchers) \cup {req'[r].cid}
              ELSE /\ req'[r].w = "response"
                   /\ catchers' = catchers]_vars

\* A POST without an Upgrade header was served: its handler wrote a status
\* and a body to the real sink and no interceptor exists.
C12_Witness ==
    /\ req[1].method = "POST"
    /\ req[1].header = EmptyHeader
    /\ req[1].pc = "done"
    /\ req[1].w = "response"
    /\ catchers = << >>
    /\ Len(sinks[1].calls) = 2
    /\ sinks[1].calls[1].op = "WriteHeader"
    /\ sinks[1].calls[2].op = "Write"

\* C14: at the step that commits a wrapped response, the header map the
\* real sink has holds no Last-Modified when lastModified is false, and
\* holds the buffered Last-Modified when lastModified is true.
C14_LastModifiedControl ==
    [][\A r \in Reqs :
         (/\ req[r].w = "catcher"
          /\ ~catchers[req[r].cid].headersSent
          /\ catchers'[req[r].cid].headersSent)
           => IF mw.lastModified
              THEN "Last-Modified" \in DOMAIN catchers[req[r].cid].headerMap
                     => "Last-Modified" \in DOMAIN sinks'[r].header
              ELSE "Last-Modified" \notin DOMAIN sinks'[r].header]_vars

\* C17: a step of one request's ServeHTTP call or handler leaves the
\* interceptor and the real sink of every other request as they were, the
\* interceptors of two requests are different objects, and no step changes
\* the middleware's range collection, which every interceptor holds.
C17_RequestsIsolated ==
    /\ [][/\ mw' = mw
           /\ \A r \in Reqs :
                (req'[r] = req[r])
                  => /\ sinks'[r] = sinks[r]
                     /\ req[r].w = "catcher"
                           => catchers'[req[r].cid] = catchers[req[r].cid]]_vars
    /\ []((req[1].w = "catcher" /\ req[2].w = "catcher") => req[1].cid # req[2].cid)
    /\ [](\A id \in DOMAIN catchers : catchers[id].httpCodeRanges = mw.httpCodeRanges)

\* Both requests are wrapped and their handlers' calls were interleaved:
\* request 1 is FILTERED with status 500 and a buffered header, request 2
\* is COMMITTED with status 200 and an empty buffer.
C17_Witness ==
    /\ req[1].w = "catcher"
    /\ req[2].w = "catcher"
    /\ req[1].n = 2
    /\ req[2].n = 1
    /\ catchers[req[1].cid].caughtFilteredCode
    /\ catchers[req[1].cid].code = 500
    /\ DOMAIN catchers[req[1].cid].headerMap = {"Set-Cookie"}
    /\ catchers[req[2].cid].headersSent
    /\ catchers[req[2].cid].code = 200
    /\ catchers[req[2].cid].headerMap = EmptyHeader
    /\ sinks[1].calls = << >>
    /\ Len(sinks[2].calls) = 1

\* C19: when ServeHTTP has returned for a wrapped request whose response is
\* FILTERED and whose handler called neither Flush nor Hijack, the real
\* sink has received no call and has the header map it was passed with.
C19_FilteredServeWritesNothing ==
    \A r \in DOMAIN req :
        (/\ req[r].pc = "done"
         /\ req[r].w = "catcher"
         /\ ~req[r].fh
         /\ catchers[req[r].cid].caughtFilteredCode)
          => /\ sinks[r].calls = << >>
             /\ sinks[r].header = ServeSinkHeader

\* ServeHTTP returned after the handler buffered a header, wrote status 500
\* and wrote a body: FILTERED, and the real sink is untouched.
C19_Witness ==
    /\ req[1].pc = "done"
    /\ req[1].w = "catcher"
    /\ req[1].n = 3
    /\ ~req[1].fh
    /\ catchers[req[1].cid].caughtFilteredCode
    /\ catchers[req[1].cid].code = 500
    /\ catchers[req[1].cid].headerMap # EmptyHeader
    /\ sinks[1].calls = << >>
\* ---------------------------------------------------------------------- C21
\* C21: SetContent called on an exported httputil.CodeCatcher that is FILTERED
\* writes the encoded body on the real sink and nothing else: the interceptor's
\* fields stay as they are, the real sink's header map receives none of the
\* buffered headers, and the one call the real sink receives is the Write.  A
\* FILTERED interceptor has never called the real sink's WriteHeader, so the
\* body reaches the real sink with no status before it.
C21_SetContentFilteredNoStatus ==
    /\ [](impl = "CodeCatcher" /\ Filtered => SinkCalls("WriteHeader") = << >>)
    /\ [][ (impl = "CodeCatcher" /\ Filtered /\ last'.op = "SetContent") =>
            /\ cc' = cc
            /\ rw'.header = rw.header
            /\ rw'.calls = Append(rw.calls,
                    SinkCall("Write", 0, EmptyHeader,
                             Encode(last'.buf, getContentEncoding(rw)))) ]_vars

\* SetContent has written a non-empty body for an interceptor that caught a
\* 5xx status and holds buffered upstream headers.
C21_Witness ==
    /\ impl = "CodeCatcher"
    /\ Filtered
    /\ last.op = "SetContent"
    /\ last.buf # << >>
    /\ cc.code = 500
    /\ cc.headerMap # EmptyHeader
    /\ explicit
    /\ Len(rw.calls) = 1
    /\ rw.calls[1].op = "Write"
    /\ rw.calls[1].buf = Encode(last.buf, "gzip")
    /\ SinkCalls("WriteHeader") = << >>

====
